---- MODULE Spec2Model ----
(***************************************************************************)
(* Verification model of the ED rostering application.                     *)
(*                                                                         *)
(* Time is counted in whole hours from Monday 00:00 of the first ISO week  *)
(* of the horizon, so that                                                 *)
(*   date(t) = t \div 24, hour(t) = t % 24, weekday(t) = date(t) % 7       *)
(*   (Mon = 0 ... Sun = 6) and isocalendar(t) = date(t) \div 7 stands for  *)
(*   the (iso_year, iso_week) key.                                         *)
(* Texts that hold a calendar date are sequences of fixed-width chunks:    *)
(*   <<d>> is "YYYY-MM-DD", <<d, 0>> is "YYYY-MM-DD 00:00:00"; texts are   *)
(*   compared lexicographically as Python compares str.                    *)
(***************************************************************************)
EXTENDS Integers, Sequences, FiniteSets, TLC

VARIABLES
    doctors,         \* list[Doctor] the caller passes to the optimizer
    shifts,          \* list[Shift] the caller passes (load_shifts order)
    leave_requests,  \* rows of table leave_requests, in insertion order
    leave_seq,       \* AUTOINCREMENT counter of leave_requests.id
    pc,              \* "setup" until Generate Roster ran, then "done"
    result,          \* outcome of build_and_solve_roster
    previous,        \* outcome of the preceding invocation, kept by the caller
    report,          \* dict returned by analyze_feasibility
    session_roster,  \* st.session_state["roster"] of the Roster Builder
    message,         \* what Generate Roster showed: "none", "success", "error"
    roster,          \* Roster(doctors, shifts, assignments) under analysis
    workload,        \* doctor id -> WorkloadSummary, from analyze_workload
    workload_before, \* the analysis of the roster before its last change
    wpc,             \* "ready" while the roster awaits analysis, "analyzed"
    assignments,     \* generate_naive_roster: list[Assignment] built so far
    shift_count,     \* generate_naive_roster: doctor id -> shifts given
    doc_index,       \* generate_naive_roster: round-robin pointer (0-based)
    sh_index,        \* generate_naive_roster: position of sh in shifts
    needed,          \* generate_naive_roster: doctors wanted for sh
    assigned_here,   \* generate_naive_roster: doctors given to sh
    attempts,        \* generate_naive_roster: iterations of the inner loop
    first_index,     \* history: doc_index when the loop of sh began
    npc,             \* generate_naive_roster: "call", "for", "while", "returned"
    gen_rows,        \* generate_shifts_for_month: its list rows, as built last
    shifts_table,    \* rows of table shifts, in insertion order
    table_before,    \* history: table shifts before the last generation
    calls,           \* history: (year, month) of the last two generations
    from_dict_error, \* exception of the last Shift.from_dict call, or "none"
    doctors_table,   \* rows of table doctors, ordered by id
    doctor_seq,      \* AUTOINCREMENT counter of doctors.id
    ever_created,    \* history: ids of the Doctors create_doctor returned
    ever_deactivated \* history: ids of stored doctors deactivate_doctor named

optVars == <<doctors, shifts, leave_requests, leave_seq, pc, result>>

pageVars == <<session_roster, message>>

callerVars == <<previous, report, pageVars>>

workloadVars == <<roster, workload, workload_before, wpc>>

naiveVars == <<assignments, shift_count, doc_index, sh_index, needed,
               assigned_here, attempts, first_index, npc>>

\* state of the other components, untouched by the optimizer and leave store
generatorVars == <<gen_rows, shifts_table, table_before, calls>>

doctorTableVars == <<doctors_table, doctor_seq, ever_created,
                     ever_deactivated>>

boundaryVars == <<from_dict_error, doctorTableVars>>

otherThanOpt == <<callerVars, workloadVars, naiveVars, generatorVars,
                  boundaryVars>>

otherThanWorkload == <<optVars, callerVars, naiveVars, generatorVars,
                       boundaryVars>>

otherThanNaive == <<optVars, callerVars, workloadVars, generatorVars,
                    boundaryVars>>

otherThanGenerator == <<optVars, callerVars, workloadVars, naiveVars,
                        boundaryVars>>

vars == <<optVars, callerVars, workloadVars, naiveVars, generatorVars,
          boundaryVars>>

----------------------------------------------------------------------------
(* Bounds of the model *)

MaxDoctors == 2
MaxShifts == 5
MaxLeave == 1

(* Program constants *)

REST_HOURS == 11

----------------------------------------------------------------------------
(* Generic helpers *)

SetMax(S) == CHOOSE m \in S : \A n \in S : n <= m
SetMin(S) == CHOOSE m \in S : \A n \in S : m <= n

RECURSIVE SortedSeq(_)
SortedSeq(S) ==
    IF S = {} THEN <<>> ELSE <<SetMin(S)>> \o SortedSeq(S \ {SetMin(S)})

----------------------------------------------------------------------------
(* datetime / date arithmetic and texts *)

date(t) == t \div 24
hour(t) == t % 24
weekday(t) == date(t) % 7
isocalendar(t) == date(t) \div 7

isoformat(d) == <<d>>

RECURSIVE StrLeq(_, _)
StrLeq(a, b) ==
    IF a = <<>> THEN TRUE
    ELSE IF b = <<>> THEN FALSE
    ELSE IF a[1] # b[1] THEN a[1] < b[1]
    ELSE StrLeq(Tail(a), Tail(b))

\* sqlite3 parameter binding: a datetime.date is stored as "YYYY-MM-DD",
\* a datetime.datetime as "YYYY-MM-DD HH:MM:SS"
AdaptParam(v) == IF v.type = "datetime" THEN <<v.day, 0>> ELSE <<v.day>>

\* calendar date named by a stored text
DateOfText(txt) == txt[1]

----------------------------------------------------------------------------
(* Shift rows: the generator's templates placed on days of the horizon *)

add_shift_row(id, d, start_h, end_h) ==
    LET start_dt == 24 * d + start_h
        end_dt == 24 * d + end_h
    IN [id |-> id,
        start |-> start_dt,
        end |-> IF end_dt <= start_dt THEN end_dt + 24 ELSE end_dt]

\* week 0: Tue..Sun evening and night templates
WeekRows ==
    { add_shift_row(1, 1, 22, 9),    \* Tue 22:00-09:00
      add_shift_row(2, 2, 22, 9),    \* Wed 22:00-09:00
      add_shift_row(3, 3, 14, 1),    \* Thu 14:00-01:00
      add_shift_row(4, 3, 22, 9),    \* Thu 22:00-09:00
      add_shift_row(5, 4, 14, 1),    \* Fri 14:00-01:00
      add_shift_row(6, 4, 22, 9),    \* Fri 22:00-09:00
      add_shift_row(7, 5, 21, 9),    \* Sat 21:00-09:00
      add_shift_row(8, 6, 21, 9) }   \* Sun 21:00-09:00

\* weekend day template over four weeks, and one weekday day shift
WeekendRows ==
    { add_shift_row(7, 5, 21, 9),
      add_shift_row(8, 6, 21, 9),
      add_shift_row(9, 5, 7, 19),    \* Sat 07:00-19:00, week 0
      add_shift_row(10, 12, 7, 19),  \* Sat 07:00-19:00, week 1
      add_shift_row(11, 19, 7, 19),  \* Sat 07:00-19:00, week 2
      add_shift_row(12, 26, 7, 19),  \* Sat 07:00-19:00, week 3
      add_shift_row(13, 0, 7, 18) }  \* Mon 07:00-18:00

Staffing == { <<0, 1>>, <<1, 2>> }

SubsetsUpTo(S, n) == { T \in SUBSET S : Cardinality(T) <= n }

\* SELECT * FROM shifts ORDER BY start, with the staffing bounds st
load_shifts(rows, st) ==
    LET keys == SortedSeq({ r.start * 100 + r.id : r \in rows })
        row(k) == CHOOSE r \in rows : r.start * 100 + r.id = k
    IN [i \in 1..Len(keys) |->
          [id |-> row(keys[i]).id,
           start |-> row(keys[i]).start,
           end |-> row(keys[i]).end,
           min_doctors |-> st[1],
           max_doctors |-> st[2]]]

ShiftLists ==
    { load_shifts(rows, st) :
        rows \in SubsetsUpTo(WeekRows, MaxShifts)
                   \cup SubsetsUpTo(WeekendRows, MaxShifts),
        st \in Staffing }

DoctorBounds == { <<0, 0>>, <<1, 2>>, <<0, 4>> }

\* get_all_doctors: doctor i carries external id i
DoctorLists ==
    UNION { { [i \in 1..n |->
                [id |-> i,
                 min_shifts_per_month |-> b[i][1],
                 max_shifts_per_month |-> b[i][2]]] :
              b \in [1..n -> DoctorBounds] } :
            n \in 0..MaxDoctors }

----------------------------------------------------------------------------
(* core/optimizer.py: helpers *)

shifts_overlap(start1, end1, start2, end2) ==
    ~(end1 <= start2 \/ end2 <= start1)

is_night_shift(shift) ==
    hour(shift.start) >= 21 \/ hour(shift.end) <= 7

----------------------------------------------------------------------------
(* core/optimizer.py: structures precomputed from the shift list *)

NoShift == 0

doctor_ids == { doctors[i].id : i \in DOMAIN doctors }
shift_ids == { shifts[i].id : i \in DOMAIN shifts }

\* a dict entry written in list order keeps the id of the last shift
LastId(I) == IF I = {} THEN NoShift ELSE shifts[SetMax(I)].id

weekend_keys ==
    { isocalendar(shifts[i].start) :
        i \in { j \in DOMAIN shifts : weekday(shifts[j].start) \in {5, 6} } }

weekends(w_key) ==
    { shifts[i].id :
        i \in { j \in DOMAIN shifts :
                  /\ weekday(shifts[j].start) \in {5, 6}
                  /\ isocalendar(shifts[j].start) = w_key } }

night_shift_ids ==
    { shifts[i].id : i \in { j \in DOMAIN shifts : is_night_shift(shifts[j]) } }

night_dates ==
    { date(shifts[i].start) :
        i \in { j \in DOMAIN shifts : is_night_shift(shifts[j]) } }

night_shift_by_date(date_key) ==
    LastId({ i \in DOMAIN shifts :
               is_night_shift(shifts[i]) /\ date(shifts[i].start) = date_key })

weekend_night_keys ==
    { isocalendar(shifts[i].start) :
        i \in { j \in DOMAIN shifts :
                  /\ is_night_shift(shifts[j])
                  /\ weekday(shifts[j].start) \in {4, 5, 6} } }

NightOn(w_key, dow) ==
    LastId({ i \in DOMAIN shifts :
               /\ is_night_shift(shifts[i])
               /\ isocalendar(shifts[i].start) = w_key
               /\ weekday(shifts[i].start) = dow })

weekend_nights(w_key) ==
    [fri |-> NightOn(w_key, 4),
     sat |-> NightOn(w_key, 5),
     sun |-> NightOn(w_key, 6)]

weekday_night_keys ==
    { isocalendar(shifts[i].start) :
        i \in { j \in DOMAIN shifts :
                  /\ is_night_shift(shifts[j])
                  /\ weekday(shifts[j].start) \in {0, 1, 2, 3} } }

weekday_nights_per_week(w_key) ==
    { shifts[i].id :
        i \in { j \in DOMAIN shifts :
                  /\ is_night_shift(shifts[j])
                  /\ weekday(shifts[j].start) \in {0, 1, 2, 3}
                  /\ isocalendar(shifts[j].start) = w_key } }

----------------------------------------------------------------------------
(* core/database.py: leave store *)

get_all_leave ==
    SortSeq(leave_requests,
            LAMBDA a, b : ~StrLeq(b.start_date, a.start_date))

\* leave_map[doc_id]: the (start_date, end_date) texts of the doctor's rows
leave_map(doc_id) ==
    IF doc_id \notin doctor_ids THEN {}
    ELSE { <<get_all_leave[i].start_date, get_all_leave[i].end_date>> :
             i \in { j \in DOMAIN get_all_leave :
                       get_all_leave[j].doctor_external_id = doc_id } }

----------------------------------------------------------------------------
(* core/optimizer.py: the rows of the LP model.                            *)
(* x[d] is the set of shift ids s with x[(d, s)] = 1 and wk[d] the set of  *)
(* weekend keys w with weekend_var[(d, w)] = 1; xd and wkd are the values  *)
(* of one doctor.  A row [ids, rhs] bounds lpSum(x[(d, s)] for s in ids).  *)

X(xd, sid) == IF sid \in xd THEN 1 ELSE 0

lpSum(xd, ids) == Cardinality(ids \cap xd)

Row(ids, rhs) == [ids |-> ids, rhs |-> rhs]

\* NoOverlapOrRest with a rest test that also flags a gap of REST_HOURS
NoOverlapOrRest_GapInclusive ==
    { Row({shifts[p[1]].id, shifts[p[2]].id}, 1) :
        p \in { q \in (DOMAIN shifts) \X (DOMAIN shifts) :
                  /\ q[2] > q[1]
                  /\ LET s1 == shifts[q[1]]
                         s2 == shifts[q[2]]
                         overlap ==
                             shifts_overlap(s1.start, s1.end, s2.start, s2.end)
                         rest_violation_forward ==
                             /\ s2.start <= s1.end + REST_HOURS
                             /\ s2.start >= s1.start
                         rest_violation_backward ==
                             /\ s1.start <= s2.end + REST_HOURS
                             /\ s1.start >= s2.start
                     IN \/ overlap
                        \/ rest_violation_forward
                        \/ rest_violation_backward } }

\* 2) + 3) NoOverlapOrRest: x[s1] + x[s2] <= 1
NoOverlapOrRest ==
    { Row({shifts[p[1]].id, shifts[p[2]].id}, 1) :
        p \in { q \in (DOMAIN shifts) \X (DOMAIN shifts) :
                  /\ q[2] > q[1]
                  /\ LET s1 == shifts[q[1]]
                         s2 == shifts[q[2]]
                         overlap ==
                             shifts_overlap(s1.start, s1.end, s2.start, s2.end)
                         rest_violation_forward ==
                             /\ s2.start < s1.end + REST_HOURS
                             /\ s2.start >= s1.start
                         rest_violation_backward ==
                             /\ s1.start < s2.end + REST_HOURS
                             /\ s1.start >= s2.start
                     IN \/ overlap
                        \/ rest_violation_forward
                        \/ rest_violation_backward } }

\* 4) MinShifts_Doctor: total >= min, added only when min > 0
MinShifts_Doctor(d) ==
    IF d.min_shifts_per_month > 0
    THEN { Row(shift_ids, d.min_shifts_per_month) }
    ELSE {}

\* 4) MaxShifts_Doctor: total <= max, added only when max > 0
MaxShifts_Doctor(d) ==
    IF d.max_shifts_per_month > 0
    THEN { Row(shift_ids, d.max_shifts_per_month) }
    ELSE {}

\* 5) Leave: x[s] == 0 for a shift whose date text lies between the texts
Leave(d_id) ==
    { Row({shifts[i].id}, 0) :
        i \in { j \in DOMAIN shifts :
                  LET shift_date_str == isoformat(date(shifts[j].start))
                  IN \E iv \in leave_map(d_id) :
                        /\ StrLeq(iv[1], shift_date_str)
                        /\ StrLeq(shift_date_str, iv[2]) } }

\* 6) WeekendLower / WeekendUpper: the shift list of each weekend key
WeekendLinks == [w_key \in weekend_keys |-> weekends(w_key)]

\* variant of WeekendBounds that allows a fourth weekend
WeekendBounds_Max4 ==
    IF weekend_keys # {} THEN { [ge |-> 1, le |-> 4] } ELSE {}

\* 6) Min1Weekend / Max3Weekends: bounds of wk_sum, when a weekend exists
WeekendBounds ==
    IF weekend_keys # {} THEN { [ge |-> 1, le |-> 3] } ELSE {}

\* 7) FriImpliesSat / FriImpliesSun: x[p[1]] <= x[p[2]]
FriImplies ==
    UNION { LET nights_dict == weekend_nights(w_key)
            IN IF \/ nights_dict.fri = NoShift
                  \/ nights_dict.sat = NoShift
                  \/ nights_dict.sun = NoShift
               THEN {}
               ELSE { <<nights_dict.fri, nights_dict.sat>>,
                      <<nights_dict.fri, nights_dict.sun>> } :
            w_key \in weekend_night_keys }

\* variant of Max2WeeknightNights that allows a third weekday night
Max2WeeknightNights_Cap3 ==
    { Row(weekday_nights_per_week(w_key), 3) : w_key \in weekday_night_keys }

\* 8) Max2WeeknightNights
Max2WeeknightNights ==
    { Row(weekday_nights_per_week(w_key), 2) : w_key \in weekday_night_keys }

\* 9) Max3ConsecNights: windows of 4 consecutive dates of dates_sorted
ConsecWindows(dates_sorted) ==
    { Row({ night_shift_by_date(dates_sorted[i]),
            night_shift_by_date(dates_sorted[i + 1]),
            night_shift_by_date(dates_sorted[i + 2]),
            night_shift_by_date(dates_sorted[i + 3]) }, 3) :
        i \in { k \in 1..(Len(dates_sorted) - 3) :
                  /\ dates_sorted[k + 1] - dates_sorted[k] = 1
                  /\ dates_sorted[k + 2] - dates_sorted[k + 1] = 1
                  /\ dates_sorted[k + 3] - dates_sorted[k + 2] = 1 } }

Max3ConsecNights == ConsecWindows(SortedSeq(night_dates))

\* the rows that mention the variables of doctor d
ModelRows(d) ==
    [le |-> NoOverlapOrRest \cup MaxShifts_Doctor(d) \cup Leave(d.id)
              \cup Max2WeeknightNights \cup Max3ConsecNights,
     ge |-> MinShifts_Doctor(d),
     implies |-> FriImplies,
     weekend |-> WeekendLinks,
     wk_sum |-> WeekendBounds]

\* values xd that satisfy the rows of m over x alone
SatisfiesX(m, xd) ==
    /\ \A r \in m.le : lpSum(xd, r.ids) <= r.rhs
    /\ \A r \in m.ge : lpSum(xd, r.ids) >= r.rhs
    /\ \A p \in m.implies : X(xd, p[1]) <= X(xd, p[2])

\* values xd, wkd that satisfy the rows of m over weekend_var
SatisfiesWk(m, xd, wkd) ==
    /\ \A w_key \in DOMAIN m.weekend :
          LET var == IF w_key \in wkd THEN 1 ELSE 0
          IN /\ lpSum(xd, m.weekend[w_key]) >= var
             /\ lpSum(xd, m.weekend[w_key])
                   <= Cardinality(m.weekend[w_key]) * var
    /\ \A b \in m.wk_sum :
          Cardinality(wkd) >= b.ge /\ Cardinality(wkd) <= b.le

\* the values [x, wk] of doctor d's variables that satisfy d's rows
DoctorRows(d) ==
    UNION { UNION { { [x |-> xd, wk |-> wkd] :
                        wkd \in { k \in SUBSET (DOMAIN m.weekend) :
                                    SatisfiesWk(m, xd, k) } } :
                    xd \in { y \in SUBSET shift_ids : SatisfiesX(m, y) } } :
            m \in { ModelRows(d) } }

\* variant of Objective without the night fairness term
Objective_TotalOnly(pt, night_ids) ==
    LET totals == { Cardinality(pt[i].x) : i \in DOMAIN pt }
    IN SetMax(totals) - SetMin(totals)

\* objective: spread of total shifts + spread of night shifts over the
\* doctors' values pt[i].x; the free variables max_* / min_* take the
\* largest and the smallest per-doctor count
Objective(pt, night_ids) ==
    LET totals == { Cardinality(pt[i].x) : i \in DOMAIN pt }
        nights == { lpSum(pt[i].x, night_ids) : i \in DOMAIN pt }
        spread_total == SetMax(totals) - SetMin(totals)
        spread_nights ==
            IF night_ids # {} THEN SetMax(nights) - SetMin(nights) ELSE 0
    IN spread_total + spread_nights

\* one value per doctor: sequences pt with pt[i] in rows[i] for i in 1..n
RECURSIVE Product(_, _)
Product(rows, n) ==
    IF n = 0 THEN { << >> }
    ELSE { Append(t, r) : t \in Product(rows, n - 1), r \in rows[n] }

\* variant of MinMaxDoctors that adds no MaxDoctors_Shift row
MinMaxDoctors_NoMax(pt) ==
    \A i \in DOMAIN shifts :
        Cardinality({ k \in DOMAIN pt : shifts[i].id \in pt[k].x })
            >= shifts[i].min_doctors

\* 1) MinDoctors_Shift / MaxDoctors_Shift, per shift over all doctors
MinMaxDoctors(pt) ==
    \A i \in DOMAIN shifts :
        LET n == Cardinality({ k \in DOMAIN pt : shifts[i].id \in pt[k].x })
        IN /\ n >= shifts[i].min_doctors
           /\ n <= shifts[i].max_doctors

\* all feasible points of the model: pt[i] = [x, wk] of doctors[i]
FeasiblePoints ==
    { pt \in Product([i \in DOMAIN doctors |-> DoctorRows(doctors[i])],
                     Len(doctors)) :
        MinMaxDoctors(pt) }

\* CBC without a time limit ends Optimal or Infeasible: the points of F
\* with the least objective value
OptimalOf(scored) ==
    { p[2] : p \in { q \in scored : \A q2 \in scored : q[1] <= q2[1] } }

OptimalPoints ==
    UNION { OptimalOf({ <<Objective(pt, night_ids), pt>> :
                          pt \in FeasiblePoints }) :
            night_ids \in { night_shift_ids } }

----------------------------------------------------------------------------
(* Outcomes *)

NoResult == [kind |-> "pending", assignments |-> {}, weekend_var |-> << >>,
             rest_hours_required |-> 0]

\* no roster handed to the workload analyzer, no analysis made
NoRoster == [doctors |-> << >>, shifts |-> << >>, assignments |-> << >>]

NoWorkload == << >>

IdleWorkload ==
    /\ roster = NoRoster
    /\ workload = NoWorkload
    /\ workload_before = NoWorkload
    /\ wpc = "idle"

\* generate_naive_roster not called
IdleNaive ==
    /\ assignments = << >>
    /\ shift_count = << >>
    /\ doc_index = 0
    /\ sh_index = 0
    /\ needed = 0
    /\ assigned_here = 0
    /\ attempts = 0
    /\ first_index = 0
    /\ npc = "idle"

\* Generate Roster not pressed: st.session_state["roster"] is None
IdlePage ==
    /\ session_roster = NoResult
    /\ message = "none"

\* no shifts generated, table shifts empty, no row converted
IdleGenerator ==
    /\ gen_rows = << >>
    /\ shifts_table = << >>
    /\ table_before = << >>
    /\ calls = << >>
    /\ from_dict_error = "none"

\* table doctors empty
IdleDoctorsTable ==
    /\ doctors_table = << >>
    /\ doctor_seq = 0
    /\ ever_created = {}
    /\ ever_deactivated = {}

\* no feasibility report made yet
NoReport == [feasible |-> FALSE, warnings |-> << >>, made |-> FALSE]

\* rest_hours_required values a caller asks for: the Roster Builder passes
\* 11.0, rules/hard_constraints.py works with MIN_REST_HOURS = 18.  The value
\* is recorded in the outcome; the optimizer's body never reads it.
RestHoursOptions == {11, 18}

ResultNone(rest) ==
    [kind |-> "None", assignments |-> {}, weekend_var |-> << >>,
     rest_hours_required |-> rest]

\* BUILD RESULT: one Assignment per x[(d_id, s.id)] with value > 0.5
AssignmentResult(pt, rest) ==
    [kind |-> "AssignmentResult",
     assignments |->
        { a \in doctor_ids \X shift_ids :
            \E i \in DOMAIN doctors :
                doctors[i].id = a[1] /\ a[2] \in pt[i].x },
     weekend_var |-> [i \in DOMAIN doctors |-> pt[i].wk],
     rest_hours_required |-> rest]

----------------------------------------------------------------------------
(* Operations *)

LeaveValues ==
    { [type |-> "date", first |-> 4, last |-> 5],
      [type |-> "datetime", first |-> 4, last |-> 5] }

\* Leave Manager "Add Leave" -> create_leave_request
create_leave_request(doctor_id, v) ==
    /\ pc = "setup"
    /\ leave_seq < MaxLeave
    /\ leave_seq' = leave_seq + 1
    /\ leave_requests' =
          Append(leave_requests,
                 [id |-> leave_seq + 1,
                  doctor_external_id |-> doctor_id,
                  start_date |-> AdaptParam([type |-> v.type, day |-> v.first]),
                  end_date |-> AdaptParam([type |-> v.type, day |-> v.last])])
    /\ UNCHANGED <<doctors, shifts, pc, result, otherThanOpt>>

delete_leave(leave_id) ==
    /\ pc = "setup"
    /\ \E i \in DOMAIN leave_requests : leave_requests[i].id = leave_id
    /\ leave_requests' =
          SelectSeq(leave_requests, LAMBDA r : r.id # leave_id)
    /\ UNCHANGED <<doctors, shifts, leave_seq, pc, result, otherThanOpt>>

\* Roster Builder "Generate Roster" -> build_and_solve_roster
build_and_solve_roster(rest) ==
    /\ pc = "setup"
    /\ pc' = "done"
    /\ IF doctors = <<>> \/ shifts = <<>>
       THEN result' = ResultNone(rest)
       ELSE \E opt \in { OptimalPoints } :
               IF opt = {}
               THEN result' = ResultNone(rest)
               ELSE \E pt \in opt : result' = AssignmentResult(pt, rest)
    /\ UNCHANGED <<doctors, shifts, leave_requests, leave_seq, otherThanOpt>>

Init ==
    /\ doctors \in DoctorLists
    /\ shifts \in ShiftLists
    /\ leave_requests = <<>>
    /\ leave_seq = 0
    /\ pc = "setup"
    /\ result = NoResult
    /\ previous = NoResult
    /\ report = NoReport
    /\ IdlePage
    /\ IdleWorkload
    /\ IdleNaive
    /\ IdleGenerator
    /\ IdleDoctorsTable

Next ==
    \/ \E d_id \in 1..MaxDoctors, v \in LeaveValues :
          create_leave_request(d_id, v)
    \/ \E leave_id \in 1..MaxLeave : delete_leave(leave_id)
    \/ \E rest \in RestHoursOptions : build_and_solve_roster(rest)

Spec == Init /\ [][Next]_vars

\* inputs for the objective: two doctors over week-0 rows with night shifts
\* (Tue, Wed, Sat 21:00) and day shifts (Mon 07-18, Sat 07-19)
MaxObjectiveShifts == 3

ObjectiveRows ==
    { add_shift_row(1, 1, 22, 9), add_shift_row(2, 2, 22, 9),
      add_shift_row(7, 5, 21, 9), add_shift_row(9, 5, 7, 19),
      add_shift_row(13, 0, 7, 18) }

InitObjective ==
    /\ doctors \in { docs \in DoctorLists : Len(docs) = MaxDoctors }
    /\ \E rows \in SubsetsUpTo(ObjectiveRows, MaxObjectiveShifts) :
       \E st \in Staffing :
          rows # {} /\ shifts = load_shifts(rows, st)
    /\ leave_requests = <<>>
    /\ leave_seq = 0
    /\ pc = "setup"
    /\ result = NoResult
    /\ previous = NoResult
    /\ report = NoReport
    /\ IdlePage
    /\ IdleWorkload
    /\ IdleNaive
    /\ IdleGenerator
    /\ IdleDoctorsTable

NextObjective ==
    \/ \E d_id \in 1..MaxDoctors, v \in LeaveValues :
          create_leave_request(d_id, v)
    \/ \E leave_id \in 1..MaxLeave : delete_leave(leave_id)
    \/ \E rest \in RestHoursOptions : build_and_solve_roster(rest)

SpecObjective == InitObjective /\ [][NextObjective]_vars

\* leave over the weekend of week 0: Fri..Sat and Sat..Sun, passed to the
\* store as datetime.date or as datetime.datetime
WeekendLeaveValues ==
    LeaveValues \cup { [type |-> "date", first |-> 5, last |-> 6],
                       [type |-> "datetime", first |-> 5, last |-> 6] }

NextWeekend ==
    \/ \E d_id \in 1..MaxDoctors, v \in WeekendLeaveValues :
          create_leave_request(d_id, v)
    \/ \E leave_id \in 1..MaxLeave : delete_leave(leave_id)
    \/ \E rest \in RestHoursOptions : build_and_solve_roster(rest)

SpecWeekend == InitObjective /\ [][NextWeekend]_vars

----------------------------------------------------------------------------
(* Feasibility analyzer (core/feasibility.py) *)

RECURSIVE sum(_)
\* sum(values): the values are added in list order
sum(values) ==
    IF values = << >> THEN 0 ELSE Head(values) + sum(Tail(values))

\* doctor id -> list of (start, end) calendar dates of the leave rows
build_leave_map(leave_rows) ==
    [d_id \in { leave_rows[i].doctor_external_id : i \in DOMAIN leave_rows } |->
        { <<DateOfText(leave_rows[i].start_date),
            DateOfText(leave_rows[i].end_date)>> :
            i \in { j \in DOMAIN leave_rows :
                      leave_rows[j].doctor_external_id = d_id } }]

\* number of doctors with no leave period covering the shift's start date
available(s, docs, lmap) ==
    Cardinality({ k \in DOMAIN docs :
        LET periods == IF docs[k].id \in DOMAIN lmap
                       THEN lmap[docs[k].id] ELSE {}
        IN ~ \E p \in periods :
                p[1] <= date(s.start) /\ date(s.start) <= p[2] })

\* the warning strings appended for the shifts with too few doctors
per_shift_issues(shs, docs, lmap) ==
    LET short == SelectSeq(shs,
                     LAMBDA s : available(s, docs, lmap) < s.min_doctors)
    IN [i \in DOMAIN short |->
          [kind |-> "shift", shift |-> short[i].id,
           needs |-> short[i].min_doctors,
           available |-> available(short[i], docs, lmap)]]

\* variant of feasible that looks at the aggregate numbers only
feasible_TotalsOnly(total_min_demand, total_max_capacity, issues) ==
    total_min_demand <= total_max_capacity

feasible(total_min_demand, total_max_capacity, issues) ==
    total_min_demand <= total_max_capacity /\ Len(issues) = 0

\* the shifts counted in the report's night_shift_demand
feasibility_night(s) == hour(s.start) >= 21

night_shift_demand(shs) ==
    sum([i \in DOMAIN shs |->
            IF feasibility_night(shs[i]) THEN shs[i].min_doctors ELSE 0])

FeasibilityReport(docs, shs, leave_rows) ==
    IF docs = << >> \/ shs = << >>
    THEN [feasible |-> FALSE,
          warnings |-> << [kind |-> "no_doctors_or_shifts"] >>,
          made |-> TRUE]
    ELSE LET total_min_demand == sum([i \in DOMAIN shs |-> shs[i].min_doctors])
             total_max_demand == sum([i \in DOMAIN shs |-> shs[i].max_doctors])
             total_min_capacity ==
                 sum([i \in DOMAIN docs |-> docs[i].min_shifts_per_month])
             total_max_capacity ==
                 sum([i \in DOMAIN docs |-> docs[i].max_shifts_per_month])
             issues == per_shift_issues(shs, docs, build_leave_map(leave_rows))
         IN [feasible |->
                feasible(total_min_demand, total_max_capacity, issues),
             warnings |->
                (IF total_min_demand > total_max_capacity
                 THEN << [kind |-> "min_demand_exceeds_max_capacity"] >>
                 ELSE << >>)
                \o (IF total_max_demand < total_min_capacity
                    THEN << [kind |-> "max_demand_below_min_capacity"] >>
                    ELSE << >>)
                \o (IF Len(issues) > 0
                    THEN << [kind |-> "leave_issues_detected"] >> \o issues
                    ELSE << >>),
             made |-> TRUE]

analyze_feasibility ==
    /\ pc = "setup"
    /\ pc' = "done"
    /\ report' = FeasibilityReport(doctors, shifts, get_all_leave)
    /\ UNCHANGED <<doctors, shifts, leave_requests, leave_seq, result,
                   previous, pageVars, workloadVars, naiveVars, generatorVars,
                   boundaryVars>>

NextFeasibility ==
    \/ \E d_id \in 1..MaxDoctors, v \in LeaveValues :
          create_leave_request(d_id, v)
    \/ \E leave_id \in 1..MaxLeave : delete_leave(leave_id)
    \/ analyze_feasibility

----------------------------------------------------------------------------
(* Two invocations of the optimizer with the same arguments, with the      *)
(* leave store free to change between them                                 *)

MaxPurityShifts == 2

PurityShiftLists ==
    { load_shifts(rows, st) :
        rows \in SubsetsUpTo(WeekRows, MaxPurityShifts) \ { {} },
        st \in Staffing }

\* Roster Builder rerun: "Generate Roster" is available again; the caller
\* still holds the roster of the invocation before
rerun ==
    /\ pc = "done"
    /\ previous = NoResult
    /\ previous' = result
    /\ result' = NoResult
    /\ pc' = "setup"
    /\ UNCHANGED <<doctors, shifts, leave_requests, leave_seq, report, pageVars,
                   workloadVars, naiveVars, generatorVars, boundaryVars>>

InitPurity ==
    /\ doctors \in DoctorLists \ { << >> }
    /\ shifts \in PurityShiftLists
    /\ leave_requests = <<>>
    /\ leave_seq = 0
    /\ pc = "setup"
    /\ result = NoResult
    /\ previous = NoResult
    /\ report = NoReport
    /\ IdlePage
    /\ IdleWorkload
    /\ IdleNaive
    /\ IdleGenerator
    /\ IdleDoctorsTable

NextPurity ==
    \/ \E d_id \in 1..MaxDoctors, v \in LeaveValues :
          create_leave_request(d_id, v)
    \/ \E leave_id \in 1..MaxLeave : delete_leave(leave_id)
    \/ \E rest \in RestHoursOptions : build_and_solve_roster(rest)
    \/ rerun

SpecPurity == InitPurity /\ [][NextPurity]_vars

SpecFeasibility == Init /\ [][NextFeasibility]_vars

----------------------------------------------------------------------------
(* Workload and burnout analyzer (core/workload_analyzer.py)               *)
(*                                                                         *)
(* Hours are whole numbers.  A factor or score that Python holds as float  *)
(* is held exactly, multiplied by a unit that the divisions divide: unit = *)
(* contract_hours * len(hours_per_doc).  burnout_score is held in          *)
(* hundredths, the precision round(score, 2) keeps.                        *)

Max(a, b) == IF a >= b THEN a ELSE b
Min(a, b) == IF a <= b THEN a ELSE b
abs(x) == IF x >= 0 THEN x ELSE 0 - x

RECURSIVE sorted(_, _)
\* sorted(seq, key=lambda s: s[key]): stable, ascending
sorted(seq, key) ==
    IF Len(seq) <= 1 THEN seq
    ELSE LET pre == sorted(SubSeq(seq, 1, Len(seq) - 1), key)
             x == seq[Len(seq)]
             n == Cardinality({ i \in DOMAIN pre : pre[i][key] <= x[key] })
         IN SubSeq(pre, 1, n) \o << x >> \o SubSeq(pre, n + 1, Len(pre))

\* Shift.duration_hours
duration_hours(s) == s.end - s.start

\* shift_map[a.shift_id]: the last shift of the list with that id
shift_map(shs, sid) ==
    shs[SetMax({ i \in DOMAIN shs : shs[i].id = sid })]

\* doc_assignments[d.id], sorted by start
assigned_shifts(ros, d_id) ==
    LET mine == SelectSeq(ros.assignments, LAMBDA a : a.doctor_id = d_id)
    IN sorted([i \in DOMAIN mine |-> shift_map(ros.shifts, mine[i].shift_id)],
              "start")

RECURSIVE longest_run(_, _, _, _)
\* the loop over range(1, len(days)): i is the 1-based position in days
longest_run(days, i, consec, best) ==
    IF i > Len(days) THEN best
    ELSE IF days[i] - days[i - 1] = 1
         THEN longest_run(days, i + 1, consec + 1, Max(best, consec + 1))
         ELSE longest_run(days, i + 1, 1, best)

compute_consecutive_days(assigned) ==
    IF assigned = << >> THEN 0
    ELSE longest_run(
             SortedSeq({ date(assigned[i].start) : i \in DOMAIN assigned }),
             2, 1, 1)

\* the analyzer's night test: the shift starts at 21:00 or later
workload_night(s) == hour(s.start) >= 21

compute_consecutive_nights(assigned) ==
    LET nights == { date(assigned[i].start) :
                      i \in { j \in DOMAIN assigned :
                                workload_night(assigned[j]) } }
    IN IF nights = {} THEN 0 ELSE longest_run(SortedSeq(nights), 2, 1, 1)

compute_rest_violations(assigned) ==
    LET by_end == sorted(assigned, "end")
    IN Cardinality({ i \in 2..Len(by_end) :
                       by_end[i].start - by_end[i - 1].end < 11 })

clamp(x, lo, hi) == Max(lo, Min(hi, x))

\* the unit in which the factors of one doctor are held
unit_of(contract_hours, avg_hours) ==
    (IF contract_hours # 0 THEN contract_hours ELSE 1) * avg_hours[2]

\* avg_hours is <<sum(hours_per_doc), len(hours_per_doc)>>, <<0, 1>> if empty
average(hours_per_doc) ==
    IF hours_per_doc # << >> THEN << sum(hours_per_doc), Len(hours_per_doc) >>
    ELSE << 0, 1 >>

\* variant of hours_factor without the clamp to [0, 100]
hours_factor_Unclamped(hours, contract_hours, unit) ==
    IF contract_hours # 0
    THEN (hours * 100 * unit) \div contract_hours
    ELSE 0

hours_factor(hours, contract_hours, unit) ==
    IF contract_hours # 0
    THEN clamp((hours * 100 * unit) \div contract_hours, 0, 100 * unit)
    ELSE 0

night_factor(night_shifts, unit) == clamp(night_shifts * 33, 0, 100) * unit

weekend_factor(weekend_shifts, unit) ==
    clamp(weekend_shifts * 33, 0, 100) * unit

consec_days_factor(consecutive_days, unit) ==
    (IF consecutive_days >= 6 THEN 100
     ELSE IF consecutive_days = 5 THEN 75
     ELSE IF consecutive_days = 4 THEN 50
     ELSE 10) * unit

consec_nights_factor(consecutive_nights, unit) ==
    (IF consecutive_nights >= 3 THEN 100
     ELSE IF consecutive_nights = 2 THEN 70
     ELSE IF consecutive_nights = 1 THEN 40
     ELSE 10) * unit

rest_factor(rest_violations, unit) == Min(rest_violations * 25, 100) * unit

fairness_factor(hours, avg_hours, unit) ==
    clamp(abs(hours * unit - (avg_hours[1] * unit) \div avg_hours[2]) * 3,
          0, 100 * unit)

\* the weights of the score, in percent
weights ==
    [hours |-> 25, night |-> 20, weekend |-> 15, consec_days |-> 15,
     consec_nights |-> 10, rest |-> 10, fairness |-> 5]

\* round(num / den, 0) as Python rounds: to nearest, ties to even
round_half_even(num, den) ==
    LET q == num \div den
        r == num % den
    IN IF 2 * r < den THEN q
       ELSE IF 2 * r > den THEN q + 1
       ELSE IF q % 2 = 0 THEN q ELSE q + 1

\* round(score, 2), in hundredths
compute_burnout_score(hours, contract_hours, night_shifts, weekend_shifts, consecutive_days, consecutive_nights, rest_violations, avg_hours) ==
    LET unit == unit_of(contract_hours, avg_hours)
    IN round_half_even(
           weights.hours * hours_factor(hours, contract_hours, unit)
           + weights.night * night_factor(night_shifts, unit)
           + weights.weekend * weekend_factor(weekend_shifts, unit)
           + weights.consec_days * consec_days_factor(consecutive_days, unit)
           + weights.consec_nights
                * consec_nights_factor(consecutive_nights, unit)
           + weights.rest * rest_factor(rest_violations, unit)
           + weights.fairness * fairness_factor(hours, avg_hours, unit),
           unit)

\* first pass: raw stats of the doctor at position k
temp_stats(ros, k) ==
    LET assigned == assigned_shifts(ros, ros.doctors[k].id)
    IN [assigned |-> assigned,
        hours |-> sum([i \in DOMAIN assigned |-> duration_hours(assigned[i])]),
        nights |-> Cardinality({ i \in DOMAIN assigned :
                                   workload_night(assigned[i]) }),
        weekends |-> Cardinality({ i \in DOMAIN assigned :
                                     assigned[i].is_weekend }),
        consec_days |-> compute_consecutive_days(assigned),
        consec_nights |-> compute_consecutive_nights(assigned),
        rest_violations |-> compute_rest_violations(assigned)]

\* second pass: doctor position -> WorkloadSummary
WorkloadOf(ros) ==
    LET st == [k \in DOMAIN ros.doctors |-> temp_stats(ros, k)]
        avg_hours == average([k \in DOMAIN ros.doctors |-> st[k].hours])
    IN [k \in DOMAIN ros.doctors |->
          [doctor_id |-> ros.doctors[k].id,
           total_shifts |-> Len(st[k].assigned),
           total_hours |-> st[k].hours,
           night_shifts |-> st[k].nights,
           weekend_shifts |-> st[k].weekends,
           consecutive_days |-> st[k].consec_days,
           consecutive_nights |-> st[k].consec_nights,
           rest_violations |-> st[k].rest_violations,
           burnout_score |->
              compute_burnout_score(
                  st[k].hours, ros.doctors[k].contract_hours_per_month,
                  st[k].nights, st[k].weekends, st[k].consec_days,
                  st[k].consec_nights, st[k].rest_violations, avg_hours)]]

MaxWorkloadDoctors == 2

ContractHours == { 0, 40, 175 }

ExtraHours == { 1 }

\* Shift.from_dict of a stored row; the generator sets is_weekend for Sat/Sun
shift_from_row(id, d, start_h, end_h) ==
    LET row == add_shift_row(id, d, start_h, end_h)
    IN [id |-> id, start |-> row.start, end |-> row.end,
        is_weekend |-> weekday(row.start) >= 5]

\* Mon 07-18, Tue 07-18, Wed 22-09, Thu 22-09, Sat 07-19, ordered by start
WorkloadShifts ==
    << shift_from_row(1, 0, 7, 18), shift_from_row(2, 1, 7, 18),
       shift_from_row(3, 2, 22, 9), shift_from_row(4, 3, 22, 9),
       shift_from_row(5, 5, 7, 19) >>

WorkloadDoctors ==
    UNION { { [k \in 1..n |-> [id |-> k, contract_hours_per_month |-> c[k]]] :
                c \in [1..n -> ContractHours] } :
            n \in 1..MaxWorkloadDoctors }

\* the assignments of a roster: for d_id in doctor_ids, for s in shifts
assignment_list(pairs) ==
    LET codes == SortedSeq({ q[1] * 100 + q[2] : q \in pairs })
    IN [i \in DOMAIN codes |->
          [doctor_id |-> codes[i] \div 100, shift_id |-> codes[i] % 100]]

\* the rosters over a doctor list: any set of (doctor, shift) pairs
RostersOver(docs) ==
    { [doctors |-> docs, shifts |-> WorkloadShifts,
       assignments |-> assignment_list(pairs)] :
        pairs \in SUBSET ((1..Len(docs)) \X (1..Len(WorkloadShifts))) }

IdleOpt ==
    /\ doctors = << >>
    /\ shifts = << >>
    /\ leave_requests = << >>
    /\ leave_seq = 0
    /\ pc = "idle"
    /\ result = NoResult
    /\ previous = NoResult
    /\ report = NoReport
    /\ IdlePage

analyze_workload ==
    /\ wpc = "ready"
    /\ workload' = WorkloadOf(roster)
    /\ wpc' = "analyzed"
    /\ UNCHANGED <<roster, workload_before, otherThanWorkload>>

\* the roster is presented again over a shift list in which shift sid ends
\* h hours later; the page still shows the analysis made before
extend_shift(sid, h) ==
    /\ wpc = "analyzed"
    /\ workload_before = NoWorkload
    /\ workload_before' = workload
    /\ workload' = NoWorkload
    /\ roster' = [roster EXCEPT !.shifts =
                    [i \in DOMAIN roster.shifts |->
                        IF roster.shifts[i].id = sid
                        THEN [roster.shifts[i] EXCEPT !.end = @ + h]
                        ELSE roster.shifts[i]]]
    /\ wpc' = "ready"
    /\ UNCHANGED otherThanWorkload

InitWorkload ==
    /\ IdleOpt
    /\ IdleNaive
    /\ IdleGenerator
    /\ IdleDoctorsTable
    /\ \E docs \in WorkloadDoctors : roster \in RostersOver(docs)
    /\ workload = NoWorkload
    /\ workload_before = NoWorkload
    /\ wpc = "ready"

NextWorkload ==
    \/ analyze_workload
    \/ \E sid \in 1..Len(WorkloadShifts), h \in ExtraHours :
          extend_shift(sid, h)

SpecWorkload == InitWorkload /\ [][NextWorkload]_vars

\* shift lists that overlap and nest: Mon 07-18, Tue 00:00 to Wed 12:00,
\* Tue 07-18, Wed 22-09, Thu 09-20, Thu 14-01, Sat 07-19, ordered by start
OverlappingShifts ==
    << shift_from_row(1, 0, 7, 18),
       [id |-> 2, start |-> 24, end |-> 60, is_weekend |-> FALSE],
       shift_from_row(3, 1, 7, 18), shift_from_row(4, 2, 22, 9),
       shift_from_row(5, 3, 9, 20), shift_from_row(6, 3, 14, 1),
       shift_from_row(7, 5, 7, 19) >>

\* one doctor holding any subset of the overlapping shifts
InitOverlap ==
    /\ IdleOpt
    /\ IdleNaive
    /\ IdleGenerator
    /\ IdleDoctorsTable
    /\ \E c \in ContractHours :
       \E held \in SUBSET (1..Len(OverlappingShifts)) :
          roster = [doctors |-> << [id |-> 1, contract_hours_per_month |-> c] >>,
                    shifts |-> OverlappingShifts,
                    assignments |-> assignment_list({1} \X held)]
    /\ workload = NoWorkload
    /\ workload_before = NoWorkload
    /\ wpc = "ready"

NextOverlap == analyze_workload

SpecOverlap == InitOverlap /\ [][NextOverlap]_vars

----------------------------------------------------------------------------
(* The optimizer's roster handed to the workload analyzer *)

\* Thu 22-09, Fri 21-08, Fri 22-09, Sat 21-09, Sun 21-09 of week 0: two
\* shifts of Friday start at 21:00 or later
NightRows ==
    { add_shift_row(4, 3, 22, 9), add_shift_row(14, 4, 21, 8),
      add_shift_row(6, 4, 22, 9), add_shift_row(7, 5, 21, 9),
      add_shift_row(8, 6, 21, 9) }

NightDoctorBounds == { <<0, 4>>, <<4, 4>> }

InitNights ==
    /\ \E n \in 1..MaxDoctors : \E b \in [1..n -> NightDoctorBounds] :
          doctors = [i \in 1..n |->
                       [id |-> i,
                        min_shifts_per_month |-> b[i][1],
                        max_shifts_per_month |-> b[i][2]]]
    /\ \E rows \in SUBSET NightRows : \E st \in Staffing :
          rows # {} /\ shifts = load_shifts(rows, st)
    /\ leave_requests = <<>>
    /\ leave_seq = 0
    /\ pc = "setup"
    /\ result = NoResult
    /\ previous = NoResult
    /\ report = NoReport
    /\ IdlePage
    /\ IdleWorkload
    /\ IdleNaive
    /\ IdleGenerator
    /\ IdleDoctorsTable

NextNights ==
    \/ \E d_id \in 1..MaxDoctors, v \in LeaveValues :
          create_leave_request(d_id, v)
    \/ \E leave_id \in 1..MaxLeave : delete_leave(leave_id)
    \/ \E rest \in RestHoursOptions : build_and_solve_roster(rest)

SpecNights == InitNights /\ [][NextNights]_vars

\* Roster(doctors, shifts, assignments) of a returned result, as the page
\* hands it to analyze_workload
roster_of(out) ==
    [doctors |-> [k \in DOMAIN doctors |->
                    [id |-> doctors[k].id, contract_hours_per_month |-> 175]],
     shifts |-> [i \in DOMAIN shifts |->
                    [id |-> shifts[i].id, start |-> shifts[i].start,
                     end |-> shifts[i].end,
                     is_weekend |-> weekday(shifts[i].start) >= 5]],
     assignments |-> assignment_list(out.assignments)]

----------------------------------------------------------------------------
(* core/solver.py: generate_naive_roster, one step per loop iteration *)

MaxNaiveDoctors == 3
MaxNaiveShifts == 3

\* Python's "value or default": the default replaces a falsy value
py_or(value, default) == IF value = 0 THEN default ELSE value

DefaultNeeded == 1
DefaultMaxShifts == 999

NaiveMaxShifts == { 0, 1, 2 }

NaiveStaffing == { <<0, 1>>, <<1, 1>>, <<2, 2>> }

NaiveDoctorLists ==
    UNION { { [i \in 1..n |->
                [id |-> i,
                 min_shifts_per_month |-> 0,
                 max_shifts_per_month |-> m[i]]] :
              m \in [1..n -> NaiveMaxShifts] } :
            n \in 0..MaxNaiveDoctors }

\* shift k is the Monday 07:00-18:00 shift of day k - 1, staffed by st[k]
NaiveShiftLists ==
    UNION { { [k \in 1..n |->
                [id |-> k,
                 start |-> add_shift_row(k, k - 1, 7, 18).start,
                 end |-> add_shift_row(k, k - 1, 7, 18).end,
                 min_doctors |-> st[k][1],
                 max_doctors |-> st[k][2]]] :
              st \in [1..n -> NaiveStaffing] } :
            n \in 0..MaxNaiveShifts }

\* if not doctors or not shifts: return Roster(...); else the initialisation
generate_naive_roster ==
    /\ npc = "call"
    /\ assignments' = << >>
    /\ IF doctors = << >> \/ shifts = << >>
       THEN /\ npc' = "returned"
            /\ UNCHANGED <<shift_count, doc_index>>
       ELSE /\ shift_count' = [i \in DOMAIN doctors |-> 0]
            /\ doc_index' = 0
            /\ npc' = "for"
    /\ UNCHANGED <<sh_index, needed, assigned_here, attempts, first_index,
                   otherThanNaive>>

\* for sh in shifts: the next shift and the reset of its counters, or the
\* return of the Roster after the last shift
for_sh ==
    /\ npc = "for"
    /\ IF sh_index < Len(shifts)
       THEN /\ sh_index' = sh_index + 1
            /\ needed' = py_or(shifts[sh_index + 1].min_doctors, DefaultNeeded)
            /\ assigned_here' = 0
            /\ attempts' = 0
            /\ first_index' = doc_index
            /\ npc' = "while"
       ELSE /\ npc' = "returned"
            /\ UNCHANGED <<sh_index, needed, assigned_here, attempts,
                           first_index>>
    /\ UNCHANGED <<assignments, shift_count, doc_index, otherThanNaive>>

while_condition_NoAttemptBound(assigned, need, att, num_docs) ==
    assigned < need

while_condition(assigned, need, att, num_docs) ==
    assigned < need /\ att < num_docs * 2

\* one test of the while condition and, when it holds, one run of the body;
\* doc is doctors[doc_index] of the 0-based Python list
while_step ==
    /\ npc = "while"
    /\ IF while_condition(assigned_here, needed, attempts, Len(doctors))
       THEN LET doc == doctors[doc_index + 1]
                max_shifts == py_or(doc.max_shifts_per_month,
                                    DefaultMaxShifts)
            IN /\ doc_index' = (doc_index + 1) % Len(doctors)
               /\ attempts' = attempts + 1
               /\ IF shift_count[doc.id] >= max_shifts
                  THEN UNCHANGED <<assignments, shift_count, assigned_here>>
                  ELSE /\ assignments' =
                            Append(assignments,
                                   [doctor_id |-> doc.id,
                                    shift_id |-> shifts[sh_index].id])
                       /\ shift_count' =
                            [shift_count EXCEPT ![doc.id] = @ + 1]
                       /\ assigned_here' = assigned_here + 1
               /\ UNCHANGED npc
       ELSE /\ npc' = "for"
            /\ UNCHANGED <<assignments, shift_count, doc_index,
                           assigned_here, attempts>>
    /\ UNCHANGED <<sh_index, needed, first_index, otherThanNaive>>

InitNaive ==
    /\ doctors \in NaiveDoctorLists
    /\ shifts \in NaiveShiftLists
    /\ leave_requests = << >>
    /\ leave_seq = 0
    /\ pc = "idle"
    /\ result = NoResult
    /\ previous = NoResult
    /\ report = NoReport
    /\ IdlePage
    /\ IdleWorkload
    /\ assignments = << >>
    /\ shift_count = << >>
    /\ doc_index = 0
    /\ sh_index = 0
    /\ needed = 0
    /\ assigned_here = 0
    /\ attempts = 0
    /\ first_index = 0
    /\ npc = "call"
    /\ IdleGenerator
    /\ IdleDoctorsTable

NextNaive ==
    \/ generate_naive_roster
    \/ for_sh
    \/ while_step

SpecNaive == InitNaive /\ [][NextNaive]_vars

\* a call that has started runs on: Python executes the function to its end
SpecNaiveFair == SpecNaive /\ WF_vars(NextNaive)

----------------------------------------------------------------------------
(* core/generate_shifts.py: generate_shifts_for_month.  Day 0 of the time   *)
(* scale is Monday 2024-01-01.                                              *)

MinYear == 2024
MaxYear == 2025

is_leap(year) ==
    year % 4 = 0 /\ (year % 100 # 0 \/ year % 400 = 0)

days_in_month(year, month) ==
    IF month = 2 THEN (IF is_leap(year) THEN 29 ELSE 28)
    ELSE IF month \in { 4, 6, 9, 11 } THEN 30 ELSE 31

\* date(year, month, 1) as a day number: the days of all earlier months
RECURSIVE first_day(_, _)
first_day(year, month) ==
    IF year = MinYear /\ month = 1 THEN 0
    ELSE IF month = 1
         THEN first_day(year - 1, 12) + days_in_month(year - 1, 12)
         ELSE first_day(year, month - 1) + days_in_month(year, month - 1)

next_month(year, month) ==
    IF month = 12 THEN first_day(year + 1, 1) ELSE first_day(year, month + 1)

\* <<start_h, end_h, min_docs, max_docs>> of the templates, in code order
WeekdayTemplates_Six ==
    << <<7, 18, 2, 2>>, <<9, 20, 1, 1>>, <<11, 22, 0, 1>>,
       <<14, 1, 3, 4>>, <<18, 22, 1, 1>>, <<22, 9, 3, 3>> >>

WeekdayTemplates ==
    << <<7, 18, 2, 2>>, <<9, 20, 1, 1>>, <<11, 22, 0, 1>>,
       <<14, 1, 3, 4>>, <<22, 9, 3, 3>> >>

WeekendTemplates ==
    << <<7, 19, 2, 2>>, <<9, 21, 1, 1>>, <<11, 23, 1, 1>>,
       <<13, 1, 2, 2>>, <<21, 9, 3, 3>> >>

\* _add_shift_row: the row appended for day d and template t
shift_row(d, t, is_weekend) ==
    LET start_dt == 24 * d + t[1]
        end_dt == 24 * d + t[2]
        end_adj == IF end_dt <= start_dt THEN end_dt + 24 ELSE end_dt
    IN [date |-> d,
        start_time |-> start_dt,
        end_time |-> end_adj,
        duration_hours |-> end_adj - start_dt,
        min_doctors |-> t[3],
        max_doctors |-> t[4],
        is_weekend |-> IF is_weekend THEN 1 ELSE 0]

\* the rows one pass of the loop body appends for day d
day_rows(d) ==
    LET is_weekend == weekday(24 * d) >= 5
        templates == IF is_weekend THEN WeekendTemplates
                     ELSE WeekdayTemplates
    IN [k \in DOMAIN templates |-> shift_row(d, templates[k], is_weekend)]

\* while d < next_month: ...; d = d + timedelta(days=1)
RECURSIVE month_rows(_, _)
month_rows(d, next) ==
    IF d < next THEN day_rows(d) \o month_rows(d + 1, next) ELSE << >>

\* replace_month_shifts: wipe-and-insert of the generated rows
save_generated_shifts_NoWipe(table, new_rows) == table \o new_rows

save_generated_shifts(table, new_rows) == new_rows

generate_shifts_for_month(year, month) ==
    /\ \E built \in { month_rows(first_day(year, month),
                                 next_month(year, month)) } :
          /\ gen_rows' = built
          /\ shifts_table' = save_generated_shifts(shifts_table, built)
    /\ table_before' = shifts_table
    /\ calls' = IF calls = << >> THEN << <<year, month>> >>
                ELSE << calls[Len(calls)], <<year, month>> >>
    /\ UNCHANGED otherThanGenerator

InitGenerator ==
    /\ IdleOpt
    /\ IdleWorkload
    /\ IdleNaive
    /\ IdleGenerator
    /\ IdleDoctorsTable

NextGenerator ==
    \E year \in MinYear..MaxYear, month \in 1..12 :
        generate_shifts_for_month(year, month)

SpecGenerator == InitGenerator /\ [][NextGenerator]_vars

----------------------------------------------------------------------------
(* The ingestion boundary: core/database.py create_doctor,                  *)
(* update_doctor_hours_and_shifts, create_leave_request and                 *)
(* core/models.py Shift.from_dict                                           *)

MaxBoundaryShifts == 2

\* row.get(key) of an absent key
None == 0 - 1

\* <<min_shifts, max_shifts>> a caller passes
BoundaryDoctorBounds == { <<0, 1>>, <<1, 1>>, <<2, 1>> }

\* rows handed to Shift.from_dict: Monday 07:00-18:00, 18:00-07:00 of the
\* same day and 07:00-07:00, staffing 1..2 or 2..1, id n or absent
BoundaryRows(n) ==
    { [id |-> i, start |-> t[1], end |-> t[2],
       min_doctors |-> st[1], max_doctors |-> st[2]] :
        i \in { None, n },
        t \in { <<7, 18>>, <<18, 7>>, <<7, 7>> },
        st \in { <<1, 2>>, <<2, 1>> } }

\* leave intervals a caller passes, one of them with end_date < start_date
BoundaryLeaveValues ==
    LeaveValues \cup { [type |-> "date", first |-> 5, last |-> 4] }

BoundaryContractHours == { 40, 175 }

\* the decimal digits of n, most significant first
RECURSIVE digits(_)
digits(n) == IF n < 10 THEN <<n>> ELSE Append(digits(n \div 10), n % 10)

\* f"D{new_id:02d}": the letter D, then the digits padded with 0 to width 2
external_id_of(new_id) ==
    <<"D">> \o (IF new_id < 10 THEN <<0>> ELSE << >>) \o digits(new_id)

ExternalIds == { external_id_of(n) : n \in 1..MaxDoctors }

row_to_doctor(row) ==
    [id |-> row.external_id,
     contract_hours_per_month |-> row.contract_hours,
     min_shifts_per_month |-> row.min_shifts,
     max_shifts_per_month |-> row.max_shifts]

\* SELECT * FROM doctors [WHERE active=1] ORDER BY id
get_all_doctors(active_only) ==
    LET isListed(row) == ~active_only \/ row.active = 1
        listed == SelectSeq(doctors_table, isListed)
    IN [i \in DOMAIN listed |-> row_to_doctor(listed[i])]

\* INSERT INTO doctors ...; UPDATE doctors SET external_id=? WHERE id=?
create_doctor(contract_hours, min_shifts, max_shifts) ==
    /\ pc = "setup"
    /\ doctor_seq < MaxDoctors
    /\ doctor_seq' = doctor_seq + 1
    /\ doctors_table' =
          Append(doctors_table,
                 [id |-> doctor_seq + 1,
                  external_id |-> external_id_of(doctor_seq + 1),
                  contract_hours |-> contract_hours,
                  min_shifts |-> min_shifts,
                  max_shifts |-> max_shifts,
                  active |-> 1])
    /\ ever_created' = ever_created \cup { external_id_of(doctor_seq + 1) }
    /\ UNCHANGED <<optVars, callerVars, workloadVars, naiveVars,
                   generatorVars, from_dict_error, ever_deactivated>>

\* UPDATE doctors SET contract_hours=?, min_shifts=?, max_shifts=?
\* WHERE external_id=?
update_doctor_hours_and_shifts(external_id, contract_hours, min_shifts, max_shifts) ==
    /\ pc = "setup"
    /\ doctors_table' =
          [i \in DOMAIN doctors_table |->
              IF doctors_table[i].external_id = external_id
              THEN [doctors_table[i] EXCEPT
                      !.contract_hours = contract_hours,
                      !.min_shifts = min_shifts,
                      !.max_shifts = max_shifts]
              ELSE doctors_table[i]]
    /\ UNCHANGED <<optVars, callerVars, workloadVars, naiveVars,
                   generatorVars, from_dict_error, doctor_seq, ever_created,
                   ever_deactivated>>

\* DELETE FROM doctors WHERE external_id=?
deactivate_doctor_Delete(external_id) ==
    /\ pc = "setup"
    /\ \E i \in DOMAIN doctors_table :
          doctors_table[i].external_id = external_id
    /\ LET isOther(row) == row.external_id # external_id
       IN doctors_table' = SelectSeq(doctors_table, isOther)
    /\ ever_deactivated' = ever_deactivated \cup { external_id }
    /\ UNCHANGED <<optVars, callerVars, workloadVars, naiveVars,
                   generatorVars, from_dict_error, doctor_seq, ever_created>>

\* UPDATE doctors SET active=0 WHERE external_id=?
deactivate_doctor(external_id) ==
    /\ pc = "setup"
    /\ doctors_table' =
          [i \in DOMAIN doctors_table |->
              IF doctors_table[i].external_id = external_id
              THEN [doctors_table[i] EXCEPT !.active = 0]
              ELSE doctors_table[i]]
    /\ ever_deactivated' =
          ever_deactivated
            \cup { doctors_table[i].external_id :
                     i \in { k \in DOMAIN doctors_table :
                               doctors_table[k].external_id = external_id } }
    /\ UNCHANGED <<optVars, callerVars, workloadVars, naiveVars,
                   generatorVars, from_dict_error, doctor_seq, ever_created>>

\* the checks of Shift.from_dict: "ValueError" for a missing id, start or
\* end, "none" otherwise
from_dict_raises(row) ==
    IF row.id = None \/ row.start = None \/ row.end = None
    THEN "ValueError" ELSE "none"

\* Shift.from_dict(row), the Shift joining the list a solve reads
from_dict(row) ==
    /\ pc = "setup"
    /\ Len(shifts) < MaxBoundaryShifts
    /\ from_dict_error' = from_dict_raises(row)
    /\ shifts' = IF from_dict_raises(row) = "none"
                 THEN Append(shifts,
                             [id |-> row.id,
                              start |-> row.start,
                              end |-> row.end,
                              min_doctors |-> row.min_doctors,
                              max_doctors |-> row.max_doctors])
                 ELSE shifts
    /\ UNCHANGED <<doctors, leave_requests, leave_seq, pc, result,
                   callerVars, workloadVars, naiveVars, generatorVars,
                   doctorTableVars>>

InitBoundary ==
    /\ doctors = << >>
    /\ shifts = << >>
    /\ leave_requests = << >>
    /\ leave_seq = 0
    /\ pc = "setup"
    /\ result = NoResult
    /\ previous = NoResult
    /\ report = NoReport
    /\ IdlePage
    /\ IdleWorkload
    /\ IdleNaive
    /\ IdleGenerator
    /\ IdleDoctorsTable

NextBoundary ==
    \/ \E h \in BoundaryContractHours, b \in BoundaryDoctorBounds :
          create_doctor(h, b[1], b[2])
    \/ \E external_id \in ExternalIds, h \in BoundaryContractHours,
          b \in BoundaryDoctorBounds :
          update_doctor_hours_and_shifts(external_id, h, b[1], b[2])
    \/ \E row \in BoundaryRows(Len(shifts) + 1) : from_dict(row)
    \/ \E d_id \in 1..MaxDoctors, v \in BoundaryLeaveValues :
          create_leave_request(d_id, v)

SpecBoundary == InitBoundary /\ [][NextBoundary]_vars

\* the Doctor Manager page: add, edit and deactivate doctors
NextLifecycle ==
    \/ \E h \in BoundaryContractHours, b \in BoundaryDoctorBounds :
          create_doctor(h, b[1], b[2])
    \/ \E external_id \in ExternalIds, h \in BoundaryContractHours,
          b \in BoundaryDoctorBounds :
          update_doctor_hours_and_shifts(external_id, h, b[1], b[2])
    \/ \E external_id \in ExternalIds : deactivate_doctor(external_id)

SpecLifecycle == InitBoundary /\ [][NextLifecycle]_vars

\* the optimizer over shift lists in any order, with gaps below, at and
\* above REST_HOURS, overlapping and nested shifts
MaxConflictShifts == 3

\* <<start, end>> in hours from Monday 00:00: Mon 09-20; Tue 07-18 (11 h
\* later), Tue 06-17 (10 h), Tue 08-19 (12 h); Mon 14-01 (overlapping),
\* Mon 10-15 (nested)
ConflictTimes ==
    << <<9, 20>>, <<31, 42>>, <<30, 41>>, <<32, 43>>, <<14, 25>>, <<10, 15>> >>

ConflictShiftLists ==
    { [k \in DOMAIN ids |->
         [id |-> ids[k],
          start |-> ConflictTimes[ids[k]][1],
          end |-> ConflictTimes[ids[k]][2],
          min_doctors |-> 0,
          max_doctors |-> 1]] :
        ids \in { q \in UNION { [1..n -> DOMAIN ConflictTimes] :
                                  n \in 2..MaxConflictShifts } :
                    \A a \in DOMAIN q : \A b \in DOMAIN q :
                        a # b => q[a] # q[b] } }

InitConflict ==
    /\ doctors = << [id |-> 1, min_shifts_per_month |-> 0,
                     max_shifts_per_month |-> 4] >>
    /\ shifts \in ConflictShiftLists
    /\ leave_requests = << >>
    /\ leave_seq = 0
    /\ pc = "setup"
    /\ result = NoResult
    /\ previous = NoResult
    /\ report = NoReport
    /\ IdlePage
    /\ IdleWorkload
    /\ IdleNaive
    /\ IdleGenerator
    /\ IdleDoctorsTable

NextConflict == \E rest \in RestHoursOptions : build_and_solve_roster(rest)

SpecConflict == InitConflict /\ [][NextConflict]_vars

----------------------------------------------------------------------------
(* pages/1_Roster_Builder.py: "Generate Roster" in optimised mode *)

\* the entry point the page imports from core.optimizer: it hands doctors
\* and shifts to build_and_solve_roster and returns what that returns, the
\* infeasible variant as a value
generate_optimized_roster(rest) ==
    IF doctors = << >> \/ shifts = << >>
    THEN { ResultNone(rest) }
    ELSE LET opt == OptimalPoints
         IN IF opt = {}
            THEN { ResultNone(rest) }
            ELSE { AssignmentResult(pt, rest) : pt \in opt }

\* rest_hours_required=11.0
PageRestHours == 11

\* if shifts and doctors: if st.button("Generate Roster"): try: roster =
\* generate_optimized_roster(...); st.session_state["roster"] = roster;
\* st.success(...).  The call raises nothing, so the except branch is not
\* taken.
Generate_Roster ==
    /\ pc = "setup"
    /\ doctors # << >> /\ shifts # << >>
    /\ \E roster_value \in generate_optimized_roster(PageRestHours) :
          /\ result' = roster_value
          /\ session_roster' = roster_value
    /\ message' = "success"
    /\ pc' = "done"
    /\ UNCHANGED <<doctors, shifts, leave_requests, leave_seq, previous,
                   report, workloadVars, naiveVars, generatorVars,
                   boundaryVars>>

\* if st.session_state["roster"]: sections 5 and 6 display it
displayed_as_roster(value) == value.kind = "AssignmentResult"

NextPage ==
    \/ \E d_id \in 1..MaxDoctors, v \in LeaveValues :
          create_leave_request(d_id, v)
    \/ \E leave_id \in 1..MaxLeave : delete_leave(leave_id)
    \/ Generate_Roster

SpecPage == InitPurity /\ [][NextPage]_vars

----------------------------------------------------------------------------
(* Properties of a set A of assignments <<doctor id, shift id>> for the    *)
(* inputs doctors, shifts and the leave store                              *)

ShiftById(sid) == shifts[CHOOSE i \in DOMAIN shifts : shifts[i].id = sid]

ShiftsOf(A, d_id) == { a[2] : a \in { b \in A : b[1] = d_id } }

IsWeekendShift(s) == weekday(s.start) \in {5, 6}

\* weekend keys in which the doctor has an assigned Sat/Sun shift
WeekendsWorked(A, d_id) ==
    { isocalendar(ShiftById(sid).start) :
        sid \in { t \in ShiftsOf(A, d_id) : IsWeekendShift(ShiftById(t)) } }

\* ids of the input's night shifts that start on weekday dow of week w_key
NightsOn(w_key, dow) ==
    { shifts[i].id :
        i \in { j \in DOMAIN shifts :
                  /\ is_night_shift(shifts[j])
                  /\ isocalendar(shifts[j].start) = w_key
                  /\ weekday(shifts[j].start) = dow } }

\* dates on which the doctor starts an assigned night shift
NightDatesOf(A, d_id) ==
    { date(ShiftById(sid).start) :
        sid \in { t \in ShiftsOf(A, d_id) : is_night_shift(ShiftById(t)) } }

Coverage(A) ==
    \A i \in DOMAIN shifts :
        LET n == Cardinality({ a \in A : a[2] = shifts[i].id })
        IN shifts[i].min_doctors <= n /\ n <= shifts[i].max_doctors

NoSelfConflict(A, rest) ==
    \A a \in A : \A b \in A :
        (a[1] = b[1] /\ a[2] # b[2]) =>
            LET s1 == ShiftById(a[2])
                s2 == ShiftById(b[2])
            IN /\ s1.end <= s2.start \/ s2.end <= s1.start
               /\ s1.start <= s2.start => s2.start - s1.end >= rest

LoadBounds(A) ==
    \A k \in DOMAIN doctors :
        LET n == Cardinality(ShiftsOf(A, doctors[k].id))
        IN /\ doctors[k].min_shifts_per_month <= n
           /\ n <= doctors[k].max_shifts_per_month

LeaveExclusion(A) ==
    \A a \in A : \A r \in DOMAIN leave_requests :
        leave_requests[r].doctor_external_id = a[1] =>
            ~(/\ DateOfText(leave_requests[r].start_date)
                    <= date(ShiftById(a[2]).start)
              /\ date(ShiftById(a[2]).start)
                    <= DateOfText(leave_requests[r].end_date))

WeekendBundling(A) ==
    \A a \in A :
        LET f == ShiftById(a[2])
            sat == NightsOn(isocalendar(f.start), 5)
            sun == NightsOn(isocalendar(f.start), 6)
        IN (/\ weekday(f.start) = 4
            /\ is_night_shift(f)
            /\ sat # {}
            /\ sun # {})
              => /\ \E sid \in sat : <<a[1], sid>> \in A
                 /\ \E sid \in sun : <<a[1], sid>> \in A

ConsecutiveNightCap(A) ==
    \A k \in DOMAIN doctors :
        \A t \in NightDatesOf(A, doctors[k].id) :
            ~({t + 1, t + 2, t + 3} \subseteq NightDatesOf(A, doctors[k].id))

WeekendLoadBound(A) ==
    (\E i \in DOMAIN shifts : IsWeekendShift(shifts[i])) =>
        \A k \in DOMAIN doctors :
            /\ Cardinality(WeekendsWorked(A, doctors[k].id)) >= 1
            /\ Cardinality(WeekendsWorked(A, doctors[k].id)) <= 3

WeekdayNightCap(A) ==
    \A k \in DOMAIN doctors : \A i \in DOMAIN shifts :
        Cardinality({ sid \in ShiftsOf(A, doctors[k].id) :
                        /\ is_night_shift(ShiftById(sid))
                        /\ weekday(ShiftById(sid).start) \in {0, 1, 2, 3}
                        /\ isocalendar(ShiftById(sid).start)
                              = isocalendar(shifts[i].start) }) <= 2

\* every hard constraint of the roster, for the rest gap the caller asked
HardConstraints(A, rest) ==
    /\ Coverage(A)
    /\ LoadBounds(A)
    /\ NoSelfConflict(A, rest)
    /\ LeaveExclusion(A)
    /\ WeekendBundling(A)
    /\ WeekendLoadBound(A)
    /\ WeekdayNightCap(A)
    /\ ConsecutiveNightCap(A)

Returned == pc = "done" /\ result.kind = "AssignmentResult"

----------------------------------------------------------------------------
(* Claims *)

\* C1 (Coverage): in every roster the optimizer returns, every input shift s
\* has at least s.min_doctors and at most s.max_doctors assignments.
C1_Coverage == Returned => Coverage(result.assignments)

\* a returned roster in which one shift has two doctors and another has one
C1_Witness ==
    /\ Returned
    /\ \E i \in DOMAIN shifts : \E j \in DOMAIN shifts :
          /\ Cardinality({ a \in result.assignments : a[2] = shifts[i].id }) = 2
          /\ Cardinality({ a \in result.assignments : a[2] = shifts[j].id }) = 1

\* C2 (No self-conflict): in every returned roster two distinct shifts of one
\* doctor do not overlap and the gap from the end of the earlier to the start
\* of the later is at least the rest_hours_required the caller asked for.
C2_NoSelfConflict ==
    Returned => NoSelfConflict(result.assignments, result.rest_hours_required)

\* C3 (Load bounds): in every returned roster each doctor d has at least
\* d.min_shifts_per_month and at most d.max_shifts_per_month shifts, also when
\* a bound is 0.
C3_LoadBounds == Returned => LoadBounds(result.assignments)

\* C4 (Leave exclusion): in every returned roster no doctor has a shift whose
\* start date lies in one of the doctor's stored leave intervals, endpoints
\* included, whatever text the store holds for the two dates.
C4_LeaveExclusion == Returned => LeaveExclusion(result.assignments)

\* C5 (Weekend bundling): in every returned roster a doctor with a Friday
\* night shift also has a Saturday night and a Sunday night shift of that ISO
\* week when the input has such shifts, also with several night shifts a day.
C5_WeekendBundling == Returned => WeekendBundling(result.assignments)

\* C6 (Consecutive-night cap): in every returned roster no doctor starts night
\* shifts on 4 consecutive calendar dates.
C6_ConsecutiveNightCap == Returned => ConsecutiveNightCap(result.assignments)

\* C7 (Weekend load bound): in every returned roster for an input with a
\* Sat/Sun shift, each doctor works in at least 1 and at most 3 weekend keys,
\* and weekend_var[(d, w)] is 1 exactly for the keys w in which d works.
C7_WeekendLoad ==
    Returned =>
        /\ WeekendLoadBound(result.assignments)
        /\ \A k \in DOMAIN doctors :
              result.weekend_var[k]
                  = WeekendsWorked(result.assignments, doctors[k].id)

\* a returned roster for an input with 4 weekends in which a doctor works 3
C7_Witness ==
    /\ Returned
    /\ Cardinality(weekend_keys) = 4
    /\ \E k \in DOMAIN doctors :
          /\ Cardinality(WeekendsWorked(result.assignments, doctors[k].id)) = 3
          /\ Cardinality(result.weekend_var[k]) = 3

\* C8 (Weekday-night cap): in every returned roster each doctor has at most 2
\* night shifts starting Mon-Thu in any one ISO week.
C8_WeekdayNightCap == Returned => WeekdayNightCap(result.assignments)

\* a returned roster where a doctor has 2 of a week's 3 weekday night shifts
C8_Witness ==
    /\ Returned
    /\ \E w_key \in weekday_night_keys :
          /\ Cardinality(weekday_nights_per_week(w_key)) >= 3
          /\ \E k \in DOMAIN doctors :
                Cardinality(ShiftsOf(result.assignments, doctors[k].id)
                              \cap weekday_nights_per_week(w_key)) = 2

\* C9 (Result and failure): for non-empty doctors and shifts the optimizer
\* returns a roster exactly when some assignment satisfies every hard
\* constraint, and otherwise the infeasible result, which has no assignments.
C9_ResultAndFailure ==
    (pc = "done" /\ doctors # << >> /\ shifts # << >>) =>
        /\ result.kind = "AssignmentResult"
              <=> \E A \in SUBSET (doctor_ids \X shift_ids) :
                     HardConstraints(A, result.rest_hours_required)
        /\ result.kind = "None" => result.assignments = {}

\* C10 (Degenerate-empty): with no doctors or no shifts the optimizer returns
\* a successful roster with zero assignments, not the infeasible result.
C10_DegenerateEmpty ==
    (pc = "done" /\ (doctors = << >> \/ shifts = << >>)) =>
        /\ result.kind = "AssignmentResult"
        /\ result.assignments = {}

\* value of the objective (spread of total shifts + spread of night shifts)
\* that a returned roster's assignments achieve
ObjectiveValue(out) ==
         LET total(k) == Cardinality(ShiftsOf(out.assignments, doctors[k].id))
             nights(k) == Cardinality(ShiftsOf(out.assignments, doctors[k].id)
                                        \cap night_shift_ids)
             spread(f(_)) ==
                 SetMax({ f(k) : k \in DOMAIN doctors })
                    - SetMin({ f(k) : k \in DOMAIN doctors })
         IN spread(total) + spread(nights)

BothInvoked == pc = "done" /\ previous # NoResult

\* C11 (Purity of a solve): two invocations with equal arguments (doctors,
\* shifts, rest_hours_required) give the same feasibility verdict and the same
\* objective value, also when create_leave_request / delete_leave ran between.
C11_Purity ==
    (BothInvoked /\ previous.rest_hours_required = result.rest_hours_required)
        => /\ previous.kind = result.kind
           /\ result.kind = "AssignmentResult"
                 => ObjectiveValue(previous) = ObjectiveValue(result)

----------------------------------------------------------------------------
(* Feasibility analyzer: the quantities of the claim, counted directly on   *)
(* the inputs                                                               *)

\* sum over i in I of N(i), as the size of a set of N(i) tokens per i
Total(I, N(_)) == Cardinality(UNION { { <<i, n>> : n \in 1..N(i) } : i \in I })

MinDemand == Total(DOMAIN shifts, LAMBDA i : shifts[i].min_doctors)
MaxDemand == Total(DOMAIN shifts, LAMBDA i : shifts[i].max_doctors)
MinCapacity == Total(DOMAIN doctors, LAMBDA k : doctors[k].min_shifts_per_month)
MaxCapacity == Total(DOMAIN doctors, LAMBDA k : doctors[k].max_shifts_per_month)

OnLeave(d_id, day) ==
    \E r \in DOMAIN leave_requests :
        /\ leave_requests[r].doctor_external_id = d_id
        /\ DateOfText(leave_requests[r].start_date) <= day
        /\ day <= DateOfText(leave_requests[r].end_date)

Shortfall(i) ==
    Cardinality({ k \in DOMAIN doctors :
                    ~OnLeave(doctors[k].id, date(shifts[i].start)) })
        < shifts[i].min_doctors

Warnings(P(_)) ==
    Cardinality({ w \in DOMAIN report.warnings : P(report.warnings[w]) })

\* C12 (Feasibility verdict): for non-empty inputs analyze_feasibility returns
\* feasible = true exactly when total min demand <= total max capacity and no
\* shift has fewer doctors not on leave than its min_doctors; it emits one
\* warning when min demand exceeds max capacity, one when max demand is below
\* min capacity, one per shift with a shortfall; for empty inputs the verdict
\* is false.
C12_FeasibilityVerdict ==
    report.made =>
        IF doctors = << >> \/ shifts = << >>
        THEN report.feasible = FALSE
        ELSE /\ report.feasible <=>
                  (MinDemand <= MaxCapacity
                     /\ \A i \in DOMAIN shifts : ~Shortfall(i))
             /\ Warnings(LAMBDA w : w.kind = "min_demand_exceeds_max_capacity")
                  = (IF MinDemand > MaxCapacity THEN 1 ELSE 0)
             /\ Warnings(LAMBDA w : w.kind = "max_demand_below_min_capacity")
                  = (IF MaxDemand < MinCapacity THEN 1 ELSE 0)
             /\ \A i \in DOMAIN shifts :
                  Warnings(LAMBDA w : w.kind = "shift"
                                        /\ w.shift = shifts[i].id)
                      = (IF Shortfall(i) THEN 1 ELSE 0)

\* a report that is infeasible only because of a leave shortfall
C12_Witness ==
    /\ report.made
    /\ doctors # << >> /\ shifts # << >>
    /\ MinDemand <= MaxCapacity
    /\ \E i \in DOMAIN shifts : Shortfall(i)
    /\ report.feasible = FALSE

----------------------------------------------------------------------------
(* Workload analyzer: claims *)

Analyzed == wpc = "analyzed"

\* the fleet average that an analysis used, read off its summaries
AvgOf(wl) == average([k \in DOMAIN wl |-> wl[k].total_hours])

InRange(x, unit) == 0 <= x /\ x <= 100 * unit

\* C13 (Burnout score bound): for every doctor and roster the burnout score of
\* analyze_workload lies in [0, 100]; each of the seven sub-factors lies in
\* [0, 100] and the weights 25, 20, 15, 15, 10, 10, 5 percent sum to 100.
C13_BurnoutBound ==
    Analyzed =>
        /\ weights.hours + weights.night + weights.weekend
             + weights.consec_days + weights.consec_nights + weights.rest
             + weights.fairness = 100
        /\ \A k \in DOMAIN workload :
             LET w == workload[k]
                 c == roster.doctors[k].contract_hours_per_month
                 u == unit_of(c, AvgOf(workload))
             IN /\ 0 <= w.burnout_score /\ w.burnout_score <= 100 * 100
                /\ InRange(hours_factor(w.total_hours, c, u), u)
                /\ InRange(night_factor(w.night_shifts, u), u)
                /\ InRange(weekend_factor(w.weekend_shifts, u), u)
                /\ InRange(consec_days_factor(w.consecutive_days, u), u)
                /\ InRange(consec_nights_factor(w.consecutive_nights, u), u)
                /\ InRange(rest_factor(w.rest_violations, u), u)
                /\ InRange(fairness_factor(w.total_hours, AvgOf(workload), u), u)

\* a doctor who works more than the contract hours and scores above 60
C13_Witness ==
    /\ Analyzed
    /\ \E k \in DOMAIN workload :
          /\ roster.doctors[k].contract_hours_per_month > 0
          /\ workload[k].total_hours
                > roster.doctors[k].contract_hours_per_month
          /\ workload[k].burnout_score > 60 * 100

\* the statistics of a summary other than its hours and its score
OtherStats(w) ==
    << w.total_shifts, w.night_shifts, w.weekend_shifts, w.consecutive_days,
       w.consecutive_nights, w.rest_violations >>

\* C14 (Burnout monotonicity): increasing one doctor's total assigned hours
\* while the doctor's other statistics and the other doctors' shifts stay
\* fixed never decreases that doctor's burnout score.
C14_BurnoutMonotone ==
    (Analyzed /\ workload_before # NoWorkload) =>
        \A k \in DOMAIN workload :
            (/\ workload[k].total_hours >= workload_before[k].total_hours
             /\ OtherStats(workload[k]) = OtherStats(workload_before[k])
             /\ \A j \in DOMAIN workload \ {k} :
                   /\ workload[j].total_hours = workload_before[j].total_hours
                   /\ OtherStats(workload[j]) = OtherStats(workload_before[j]))
                => workload[k].burnout_score >= workload_before[k].burnout_score

----------------------------------------------------------------------------
(* Naive allocator *)

\* the loop of shifts[sh_index] has ended
ShiftDone == npc \in { "for", "returned" } /\ sh_index >= 1

\* doctor ids given to the shift whose loop ran last, in order of assignment
GivenHere ==
    [k \in 1..assigned_here |->
        assignments[Len(assignments) - assigned_here + k].doctor_id]

\* assignments of doctor d_id among the first n of the list
CountIn(d_id, n) ==
    Cardinality({ i \in 1..n : assignments[i].doctor_id = d_id })

\* positions of the doctors below their maximum when the loop of the last
\* shift began
BelowMax ==
    { i \in DOMAIN doctors :
        CountIn(doctors[i].id, Len(assignments) - assigned_here)
          < doctors[i].max_shifts_per_month }

\* the doctor list read round-robin from the pointer the loop began with
RoundRobin ==
    [k \in 1..Len(doctors) |-> ((first_index + k - 1) % Len(doctors)) + 1]

\* the first n doctors below their maximum, in round-robin order
ExpectedHere(n) ==
    LET isBelow(i) == i \in BelowMax
        order == SelectSeq(RoundRobin, isBelow)
    IN [k \in 1..n |-> doctors[order[k]].id]

\* C15: when the loop of a shift s has ended and at least s.min_doctors
\* doctors were below their max_shifts_per_month when it began, the doctors
\* given to s are exactly the first s.min_doctors such doctors in
\* round-robin order from the pointer left by the previous shift (none when
\* min_doctors = 0)
C15_NaiveCoverage ==
    ShiftDone =>
        (Cardinality(BelowMax) >= shifts[sh_index].min_doctors
            => GivenHere = ExpectedHere(shifts[sh_index].min_doctors))

\* C16: at every point of the run and in the result, no doctor holds more
\* assignments than max_shifts_per_month, 0 included
C16_NaiveRespectsMax ==
    \A i \in DOMAIN doctors :
        CountIn(doctors[i].id, Len(assignments))
          <= doctors[i].max_shifts_per_month

\* C17: every call of generate_naive_roster returns, and the inner loop of
\* a shift never makes more than 2 x len(doctors) attempts
C17_NaiveNeverFails ==
    /\ [](npc = "while" => attempts <= 2 * Len(doctors))
    /\ <>(npc = "returned")

\* a run that returned although its last shift got fewer doctors than
\* needed, after all 2 x len(doctors) attempts
C17_Witness ==
    /\ npc = "returned"
    /\ doctors # << >>
    /\ sh_index = Len(shifts)
    /\ assigned_here < needed
    /\ attempts = 2 * Len(doctors)

----------------------------------------------------------------------------
(* Shift generator *)

\* (year, month) of the last generation
LastCall == calls[Len(calls)]

\* the days of the month of a call, counted on the calendar
DaysOf(c) == first_day(c[1], c[2]) .. (first_day(c[1], c[2])
                                        + days_in_month(c[1], c[2]) - 1)

WeekdayDays(c) == { d \in DaysOf(c) : d % 7 < 5 }

WeekendDays(c) == { d \in DaysOf(c) : d % 7 >= 5 }

\* C18: generate_shifts_for_month builds (Monday-to-Friday days) x 6 +
\* (Saturday/Sunday days) x 5 rows
C18_CountSixPerWeekday ==
    calls # << >> =>
        Len(gen_rows) = Cardinality(WeekdayDays(LastCall)) * 6
                          + Cardinality(WeekendDays(LastCall)) * 5

\* C18, amended: generate_shifts_for_month builds (Monday-to-Friday days)
\* x 5 + (Saturday/Sunday days) x 5 rows; 140 for a 28-day February
C18_CountFivePerDay ==
    calls # << >> =>
        /\ Len(gen_rows) = Cardinality(WeekdayDays(LastCall)) * 5
                             + Cardinality(WeekendDays(LastCall)) * 5
        /\ days_in_month(LastCall[1], LastCall[2]) = 28
              => /\ Cardinality(WeekdayDays(LastCall)) = 20
                 /\ Cardinality(WeekendDays(LastCall)) = 8
                 /\ Len(gen_rows) = 140

\* a 28-day February has been generated
C18_Witness ==
    /\ calls # << >>
    /\ LastCall[2] = 2
    /\ days_in_month(LastCall[1], LastCall[2]) = 28
    /\ Len(gen_rows) = 140

\* the calendar days on which the rows of table shifts are dated
DatesStored == { shifts_table[i].date : i \in DOMAIN shifts_table }

\* C19: after any sequence of generations table shifts holds exactly the
\* rows of the last generated (year, month): every day of that month and
\* no day of another month is stored, and generating the same month twice
\* leaves the table as one generation left it
C19_IdempotentGeneration ==
    calls # << >> =>
        /\ shifts_table = gen_rows
        /\ DatesStored = DaysOf(LastCall)
        /\ (Len(calls) = 2 /\ calls[1] = calls[2])
              => shifts_table = table_before

\* the same month generated twice in a row, over a table that held it
C19_Witness ==
    /\ Len(calls) = 2
    /\ calls[1] = calls[2]
    /\ table_before # << >>
    /\ shifts_table # << >>

----------------------------------------------------------------------------
(* Ingestion boundary *)

InvalidDoctor(d) == d.min_shifts_per_month > d.max_shifts_per_month

InvalidShift(sh) == sh.end <= sh.start \/ sh.min_doctors > sh.max_doctors

InvalidLeave(lv) ==
    ~StrLeq(lv.start_date, lv.end_date)

\* C20: no sequence of create_doctor, update_doctor_hours_and_shifts,
\* Shift.from_dict and create_leave_request puts a doctor with min_shifts >
\* max_shifts, a shift with end <= start or min_doctors > max_doctors, or a
\* leave with end_date < start_date into the records a solve reads
C20_InvalidInputRejected ==
    /\ \A i \in DOMAIN get_all_doctors(TRUE) :
          ~InvalidDoctor(get_all_doctors(TRUE)[i])
    /\ \A k \in DOMAIN shifts : ~InvalidShift(shifts[k])
    /\ \A j \in DOMAIN leave_requests : ~InvalidLeave(leave_requests[j])

----------------------------------------------------------------------------
(* Doctor lifecycle *)

IdsOf(docs) == { docs[i].id : i \in DOMAIN docs }

\* every doctor ever created is listed, once, under its own external id,
\* and the active listing holds exactly those never deactivated
AllListed ==
    /\ IdsOf(get_all_doctors(FALSE)) = ever_created
    /\ Len(get_all_doctors(FALSE)) = Cardinality(ever_created)
    /\ IdsOf(get_all_doctors(TRUE)) = ever_created \ ever_deactivated
    /\ Len(get_all_doctors(TRUE)) = Cardinality(ever_created \ ever_deactivated)

\* a step that is deactivate_doctor(e) leaves every row as it was, but for
\* the active flag of the rows of e
OnlyActiveChanged ==
    \A e \in ExternalIds :
        deactivate_doctor(e) =>
            /\ DOMAIN doctors_table' = DOMAIN doctors_table
            /\ \A i \in DOMAIN doctors_table :
                  doctors_table'[i] =
                      IF doctors_table[i].external_id = e
                      THEN [doctors_table[i] EXCEPT !.active = 0]
                      ELSE doctors_table[i]

\* a row that is inactive stays, and stays inactive
NeverReactivated ==
    \A i \in DOMAIN doctors_table :
        doctors_table[i].active = 0 =>
            /\ i \in DOMAIN doctors_table'
            /\ doctors_table'[i].external_id = doctors_table[i].external_id
            /\ doctors_table'[i].active = 0

\* C21: after any sequence of create_doctor, update_doctor_hours_and_shifts
\* and deactivate_doctor, get_all_doctors(active_only=False) returns every
\* doctor ever created under a distinct external id, get_all_doctors(True)
\* exactly those never deactivated; deactivate_doctor changes only the
\* active flag of the named doctor and no step reactivates a doctor
C21_DoctorLifecycle ==
    /\ []AllListed
    /\ [][OnlyActiveChanged /\ NeverReactivated]_vars

\* two doctors created, the first deactivated and then updated
C21_Witness ==
    /\ Len(doctors_table) = 2
    /\ doctors_table[1].active = 0
    /\ doctors_table[2].active = 1
    /\ doctors_table[1].min_shifts # doctors_table[2].min_shifts
    /\ ever_deactivated = { doctors_table[1].external_id }

----------------------------------------------------------------------------
(* Conflict pairs *)

\* two shifts a doctor cannot both work: they overlap, or the one that ends
\* first leaves less than REST_HOURS before the other starts
ConflictPair(s1, s2) ==
    LET first == IF s1.end <= s2.end THEN s1 ELSE s2
        other == IF s1.end <= s2.end THEN s2 ELSE s1
    IN \/ ~(s1.end <= s2.start \/ s2.end <= s1.start)
       \/ other.start - first.end < REST_HOURS

\* C22: for every two distinct input shifts the optimizer holds the row
\* "at most one of i, j" exactly when the shifts overlap or the gap from the
\* end of the one that ends first to the start of the other is below
\* REST_HOURS; a gap of exactly REST_HOURS adds no row, in either list order
C22_ConflictPairs ==
    pc = "done" =>
        \A i \in DOMAIN shifts : \A j \in DOMAIN shifts :
            i # j =>
                (Row({shifts[i].id, shifts[j].id}, 1) \in NoOverlapOrRest
                    <=> ConflictPair(shifts[i], shifts[j]))

\* a solved input that holds a pair with a gap of exactly REST_HOURS, later
\* shift first in the list, and a roster giving the doctor both
C22_Witness ==
    /\ pc = "done"
    /\ \E i \in DOMAIN shifts : \E j \in DOMAIN shifts :
          /\ i < j
          /\ shifts[i].start - shifts[j].end = REST_HOURS
          /\ result.kind = "AssignmentResult"
          /\ <<1, shifts[i].id>> \in result.assignments
          /\ <<1, shifts[j].id>> \in result.assignments

----------------------------------------------------------------------------
(* Roster Builder *)

\* Generate Roster ran and the optimizer reported infeasibility
PageInfeasible == pc = "done" /\ message # "none" /\ result.kind = "None"

\* C23: when Generate Roster ran in optimised mode and the optimizer
\* reported infeasibility, the page does not show the success outcome and
\* holds no value that the display sections treat as a generated roster
C23_InfeasibilitySurfaced ==
    PageInfeasible =>
        /\ message # "success"
        /\ ~displayed_as_roster(session_roster)

----------------------------------------------------------------------------
(* Night classification *)

\* C24: every shift of the input is a night shift for the optimizer exactly
\* when it is one for the workload analyzer and for the feasibility analyzer
C24_OneNightPredicate ==
    \A i \in DOMAIN shifts :
        /\ is_night_shift(shifts[i]) = workload_night(shifts[i])
        /\ is_night_shift(shifts[i]) = feasibility_night(shifts[i])

----------------------------------------------------------------------------
(* Rest-violation statistic *)

\* adjacent pairs of a list whose gap, next start minus previous end, is
\* below 11 hours
short_gaps(list) ==
    Cardinality({ i \in 2..Len(list) : list[i].start - list[i - 1].end < 11 })

\* C25: rest_violations of every doctor is the number of adjacent pairs, in
\* the doctor's shifts sorted by start time, with a gap below 11 hours
C25_RestViolationsByStart ==
    wpc = "analyzed" =>
        \A k \in DOMAIN workload :
            workload[k].rest_violations =
                short_gaps(assigned_shifts(roster, roster.doctors[k].id))

----------------------------------------------------------------------------
(* Objective *)

----------------------------------------------------------------------------
(* Naive allocator: distinct pairs *)

\* C27: the (doctor_id, shift_id) pairs of the assignments made by
\* generate_naive_roster are pairwise distinct
C27_NaiveDistinctPairs ==
    \A i \in DOMAIN assignments : \A j \in DOMAIN assignments :
        i # j => assignments[i] # assignments[j]

----------------------------------------------------------------------------
(* Feasibility pre-check against the optimizer *)

\* C28: whenever the optimizer returns a roster for non-empty doctors and
\* shifts, analyze_feasibility on the same doctors, shifts and leave rows
\* returns feasible = true
C28_PreCheckNecessary ==
    (Returned /\ doctors # << >> /\ shifts # << >>) =>
        FeasibilityReport(doctors, shifts, get_all_leave).feasible

----------------------------------------------------------------------------
(* The optimizer's roster under the workload analyzer *)

\* C29: analyze_workload applied to a roster returned by the optimizer
\* reports rest_violations = 0 and consecutive_nights <= 3 for every doctor
C29_RosterClean ==
    Returned =>
        LET wl == WorkloadOf(roster_of(result))
        IN \A k \in DOMAIN wl :
              /\ wl[k].rest_violations = 0
              /\ wl[k].consecutive_nights <= 3

----------------------------------------------------------------------------
(* Weekend minimum *)

\* every Saturday/Sunday shift of the input starts on a day of a leave
\* interval of the doctor at position k
OnLeaveAllWeekend(k) ==
    \A i \in DOMAIN shifts :
        IsWeekendShift(shifts[i]) =>
            \E r \in DOMAIN leave_requests :
                /\ leave_requests[r].doctor_external_id = doctors[k].id
                /\ DateOfText(leave_requests[r].start_date)
                      <= date(shifts[i].start)
                /\ date(shifts[i].start)
                      <= DateOfText(leave_requests[r].end_date)

\* C30: when the input has a Saturday/Sunday shift and some doctor is on
\* leave for every such shift, the optimizer reports infeasibility, whatever
\* the doctor's min_shifts_per_month and the other doctors
C30_WeekendMinUnconditional ==
    (/\ pc = "done"
     /\ weekend_keys # {}
     /\ \E k \in DOMAIN doctors : OnLeaveAllWeekend(k))
        => result.kind = "None"

====
